---- MODULE Spec2Model ----
(***************************************************************************)
(* gbkDetect: encoding detection, garbled-Chinese-text analysis and GBK    *)
(* conversion of *.cpp files.                                              *)
(*                                                                         *)
(*   gbkDetect.py     detect -> decode (with fallback list) -> analyse     *)
(*   gbkDetect_CN.py  detect -> check a GBK-family file, or convert to GBK *)
(*                                                                         *)
(* Text is a sequence of Unicode code points, file content a sequence of   *)
(* byte values, an encoding label a sequence of one-character strings.     *)
(* The results of the CPython codecs are tabulated over the byte strings   *)
(* and characters the model can reach.                                     *)
(***************************************************************************)
EXTENDS Integers, Sequences, FiniteSets, TLC

\* ------------------------------------------------------------------ bounds
\* longest text handed to the text functions
MaxLen == 4
\* number of *.cpp files found by rglob
NumFiles == 2
\* number of times the batch is run over the same tree
MaxRuns == 2

\* ------------------------------------------------------- python primitives
Return(v) == [exc |-> "", value |-> v]
Raise(e) == [exc |-> e, value |-> <<>>]

Min(a, b) == IF a < b THEN a ELSE b
Max(a, b) == IF a < b THEN b ELSE a

\* s[a:b] with 0-based, end-exclusive, clamped bounds
slice(s, a, b) == SubSeq(s, a + 1, Min(b, Len(s)))

\* p in s, for sequences
Contains(p, s) == \E k \in 0..(Len(s) - Len(p)) : SubSeq(s, k + 1, k + Len(p)) = p

\* s.find(p): the least index of an occurrence, for p in s
FirstIndex(p, s) == CHOOSE k \in 0..(Len(s) - Len(p)) :
    /\ SubSeq(s, k + 1, k + Len(p)) = p
    /\ \A j \in 0..(k - 1) : SubSeq(s, j + 1, j + Len(p)) # p

NL == 10

RECURSIVE split_from(_, _, _)
split_from(text, k, cur) ==
    IF k > Len(text) THEN <<cur>>
    ELSE IF text[k] = NL THEN <<cur>> \o split_from(text, k + 1, <<>>)
    ELSE split_from(text, k + 1, Append(cur, text[k]))

\* text.split('\n')
split(text) == split_from(text, 1, <<>>)

lower_table ==
    [c \in {"A","B","C","D","E","F","G","I","J","S","T","U","W"} |->
        CASE c = "A" -> "a" [] c = "B" -> "b" [] c = "C" -> "c" [] c = "D" -> "d"
          [] c = "E" -> "e" [] c = "F" -> "f" [] c = "G" -> "g" [] c = "I" -> "i"
          [] c = "J" -> "j" [] c = "S" -> "s" [] c = "T" -> "t" [] c = "U" -> "u"
          [] c = "W" -> "w"]

\* str.lower()
lower(s) == [k \in 1..Len(s) |-> IF s[k] \in DOMAIN lower_table THEN lower_table[s[k]] ELSE s[k]]

\* str.startswith(prefix)
startswith(s, prefix) == Len(s) >= Len(prefix) /\ SubSeq(s, 1, Len(prefix)) = prefix

\* ---------------------------------------------------------- encoding labels
None == <<"None">>
L_ascii == <<"a","s","c","i","i">>
L_utf8 == <<"u","t","f","-","8">>
L_GB2312 == <<"G","B","2","3","1","2">>
L_Windows1252 == <<"W","i","n","d","o","w","s","-","1","2","5","2">>
L_EUCTW == <<"E","U","C","-","T","W">>
L_gbk == <<"g","b","k">>
L_gb18030 == <<"g","b","1","8","0","3","0">>
L_big5 == <<"b","i","g","5">>

\* the codec registry of the runtime, keyed by the normalised name; a label
\* outside it (chardet's EUC-TW) makes every open/encode/decode raise LookupError
codec_aliases ==
    (L_ascii :> "ascii") @@ (L_utf8 :> "utf-8") @@ (lower(L_GB2312) :> "gb2312")
 @@ (L_big5 :> "big5") @@ (lower(L_Windows1252) :> "cp1252")
 @@ (L_gbk :> "gbk") @@ (L_gb18030 :> "gb18030")

codec_lookup(encoding) ==
    IF lower(encoding) \in DOMAIN codec_aliases THEN codec_aliases[lower(encoding)] ELSE "LookupError"

\* ------------------------------------------------------------ codec tables
\* bytes.decode(codec, errors='strict'): the text, or UnicodeDecodeError, for
\* every file content of the model and every encoded character
strict_decode_table ==
    (<<"ascii", <<>>>> :> Return(<<>>))
 @@ (<<"ascii", <<10>>>> :> Return(<<10>>))
 @@ (<<"ascii", <<63>>>> :> Return(<<63>>))
 @@ (<<"ascii", <<130,53,143,51>>>> :> Raise("UnicodeDecodeError"))
 @@ (<<"ascii", <<233,148,159,230,150,164,230,139,183>>>> :> Raise("UnicodeDecodeError"))
 @@ (<<"ascii", <<239,191,189,239,191,189>>>> :> Raise("UnicodeDecodeError"))
 @@ (<<"ascii", <<253,155>>>> :> Raise("UnicodeDecodeError"))
 @@ (<<"ascii", <<255>>>> :> Raise("UnicodeDecodeError"))
 @@ (<<"big5", <<>>>> :> Return(<<>>))
 @@ (<<"big5", <<10>>>> :> Return(<<10>>))
 @@ (<<"big5", <<63>>>> :> Return(<<63>>))
 @@ (<<"big5", <<130,53,143,51>>>> :> Raise("UnicodeDecodeError"))
 @@ (<<"big5", <<164,64>>>> :> Return(<<19968>>))
 @@ (<<"big5", <<164,231>>>> :> Return(<<26020>>))
 @@ (<<"big5", <<171,254>>>> :> Return(<<25335>>))
 @@ (<<"big5", <<189,239>>>> :> Return(<<36381>>))
 @@ (<<"big5", <<191,189>>>> :> Return(<<34157>>))
 @@ (<<"big5", <<233,148,159,230,150,164,230,139,183>>>> :> Raise("UnicodeDecodeError"))
 @@ (<<"big5", <<239,191>>>> :> Return(<<22169>>))
 @@ (<<"big5", <<239,191,189,239,191,189>>>> :> Return(<<22169,36381,34157>>))
 @@ (<<"big5", <<253,155>>>> :> Raise("UnicodeDecodeError"))
 @@ (<<"big5", <<255>>>> :> Raise("UnicodeDecodeError"))
 @@ (<<"cp1252", <<>>>> :> Return(<<>>))
 @@ (<<"cp1252", <<10>>>> :> Return(<<10>>))
 @@ (<<"cp1252", <<63>>>> :> Return(<<63>>))
 @@ (<<"cp1252", <<130,53,143,51>>>> :> Raise("UnicodeDecodeError"))
 @@ (<<"cp1252", <<233,148,159,230,150,164,230,139,183>>>> :> Return(<<233,8221,376,230,8211,164,230,8249,183>>))
 @@ (<<"cp1252", <<239,191,189,239,191,189>>>> :> Return(<<239,191,189,239,191,189>>))
 @@ (<<"cp1252", <<253,155>>>> :> Return(<<253,8250>>))
 @@ (<<"cp1252", <<255>>>> :> Return(<<255>>))
 @@ (<<"gb18030", <<>>>> :> Return(<<>>))
 @@ (<<"gb18030", <<10>>>> :> Return(<<10>>))
 @@ (<<"gb18030", <<63>>>> :> Return(<<63>>))
 @@ (<<"gb18030", <<130,53,143,50>>>> :> Return(<<19967>>))
 @@ (<<"gb18030", <<130,53,143,51>>>> :> Return(<<40870>>))
 @@ (<<"gb18030", <<130,53,152,50>>>> :> Return(<<40959>>))
 @@ (<<"gb18030", <<130,53,152,51>>>> :> Return(<<40960>>))
 @@ (<<"gb18030", <<132,49,164,55>>>> :> Return(<<65533>>))
 @@ (<<"gb18030", <<135,167>>>> :> Return(<<22169>>))
 @@ (<<"gb18030", <<189,239>>>> :> Return(<<26020>>))
 @@ (<<"gb18030", <<191,189>>>> :> Return(<<25335>>))
 @@ (<<"gb18030", <<202,146>>>> :> Return(<<34157>>))
 @@ (<<"gb18030", <<210,187>>>> :> Return(<<19968>>))
 @@ (<<"gb18030", <<233,148,159,230,150,164,230,139,183>>>> :> Raise("UnicodeDecodeError"))
 @@ (<<"gb18030", <<239,187>>>> :> Return(<<38168>>))
 @@ (<<"gb18030", <<239,191>>>> :> Return(<<38175>>))
 @@ (<<"gb18030", <<239,191,189,239,191,189>>>> :> Return(<<38175,26020,25335>>))
 @@ (<<"gb18030", <<245,215>>>> :> Return(<<36381>>))
 @@ (<<"gb18030", <<253,155>>>> :> Return(<<40869>>))
 @@ (<<"gb18030", <<255>>>> :> Raise("UnicodeDecodeError"))
 @@ (<<"gb2312", <<>>>> :> Return(<<>>))
 @@ (<<"gb2312", <<10>>>> :> Return(<<10>>))
 @@ (<<"gb2312", <<63>>>> :> Return(<<63>>))
 @@ (<<"gb2312", <<130,53,143,51>>>> :> Raise("UnicodeDecodeError"))
 @@ (<<"gb2312", <<189,239>>>> :> Return(<<26020>>))
 @@ (<<"gb2312", <<191,189>>>> :> Return(<<25335>>))
 @@ (<<"gb2312", <<210,187>>>> :> Return(<<19968>>))
 @@ (<<"gb2312", <<233,148,159,230,150,164,230,139,183>>>> :> Raise("UnicodeDecodeError"))
 @@ (<<"gb2312", <<239,187>>>> :> Return(<<38168>>))
 @@ (<<"gb2312", <<239,191>>>> :> Return(<<38175>>))
 @@ (<<"gb2312", <<239,191,189,239,191,189>>>> :> Return(<<38175,26020,25335>>))
 @@ (<<"gb2312", <<245,215>>>> :> Return(<<36381>>))
 @@ (<<"gb2312", <<253,155>>>> :> Raise("UnicodeDecodeError"))
 @@ (<<"gb2312", <<255>>>> :> Raise("UnicodeDecodeError"))
 @@ (<<"gbk", <<>>>> :> Return(<<>>))
 @@ (<<"gbk", <<10>>>> :> Return(<<10>>))
 @@ (<<"gbk", <<63>>>> :> Return(<<63>>))
 @@ (<<"gbk", <<63,168,166>>>> :> Return(<<63,233>>))
 @@ (<<"gbk", <<63,233,191>>>> :> Return(<<63,27053>>))
 @@ (<<"gbk", <<63,233,191,191>>>> :> Raise("UnicodeDecodeError"))
 @@ (<<"gbk", <<130,53,143,51>>>> :> Raise("UnicodeDecodeError"))
 @@ (<<"gbk", <<135,167>>>> :> Return(<<22169>>))
 @@ (<<"gbk", <<189,239>>>> :> Return(<<26020>>))
 @@ (<<"gbk", <<191,189>>>> :> Return(<<25335>>))
 @@ (<<"gbk", <<202,146>>>> :> Return(<<34157>>))
 @@ (<<"gbk", <<210,187>>>> :> Return(<<19968>>))
 @@ (<<"gbk", <<233,148,159,230,150,164,230,139,183>>>> :> Raise("UnicodeDecodeError"))
 @@ (<<"gbk", <<239,187>>>> :> Return(<<38168>>))
 @@ (<<"gbk", <<239,191>>>> :> Return(<<38175>>))
 @@ (<<"gbk", <<239,191,189,239,191,189>>>> :> Return(<<38175,26020,25335>>))
 @@ (<<"gbk", <<245,215>>>> :> Return(<<36381>>))
 @@ (<<"gbk", <<253,155>>>> :> Return(<<40869>>))
 @@ (<<"gbk", <<255>>>> :> Raise("UnicodeDecodeError"))
 @@ (<<"utf-8", <<>>>> :> Return(<<>>))
 @@ (<<"utf-8", <<10>>>> :> Return(<<10>>))
 @@ (<<"utf-8", <<63>>>> :> Return(<<63>>))
 @@ (<<"utf-8", <<130,53,143,51>>>> :> Raise("UnicodeDecodeError"))
 @@ (<<"utf-8", <<228,183,191>>>> :> Return(<<19967>>))
 @@ (<<"utf-8", <<228,184,128>>>> :> Return(<<19968>>))
 @@ (<<"utf-8", <<229,154,153>>>> :> Return(<<22169>>))
 @@ (<<"utf-8", <<230,139,183>>>> :> Return(<<25335>>))
 @@ (<<"utf-8", <<230,150,164>>>> :> Return(<<26020>>))
 @@ (<<"utf-8", <<232,149,173>>>> :> Return(<<34157>>))
 @@ (<<"utf-8", <<232,184,157>>>> :> Return(<<36381>>))
 @@ (<<"utf-8", <<233,148,152>>>> :> Return(<<38168>>))
 @@ (<<"utf-8", <<233,148,159>>>> :> Return(<<38175>>))
 @@ (<<"utf-8", <<233,148,159,230,150,164,230,139,183>>>> :> Return(<<38175,26020,25335>>))
 @@ (<<"utf-8", <<233,190,165>>>> :> Return(<<40869>>))
 @@ (<<"utf-8", <<233,190,166>>>> :> Return(<<40870>>))
 @@ (<<"utf-8", <<233,191,191>>>> :> Return(<<40959>>))
 @@ (<<"utf-8", <<234,128,128>>>> :> Return(<<40960>>))
 @@ (<<"utf-8", <<239,191,189>>>> :> Return(<<65533>>))
 @@ (<<"utf-8", <<239,191,189,239,191,189>>>> :> Return(<<65533,65533>>))
 @@ (<<"utf-8", <<253,155>>>> :> Raise("UnicodeDecodeError"))
 @@ (<<"utf-8", <<255>>>> :> Raise("UnicodeDecodeError"))

\* char.encode(codec, errors='strict'): the bytes, or UnicodeEncodeError, for the
\* characters of Alphabet and the Chinese characters the file contents decode to
strict_encode_table ==
    (<<"ascii", 10>> :> Return(<<10>>))
 @@ (<<"ascii", 63>> :> Return(<<63>>))
 @@ (<<"ascii", 19967>> :> Raise("UnicodeEncodeError"))
 @@ (<<"ascii", 19968>> :> Raise("UnicodeEncodeError"))
 @@ (<<"ascii", 22169>> :> Raise("UnicodeEncodeError"))
 @@ (<<"ascii", 25335>> :> Raise("UnicodeEncodeError"))
 @@ (<<"ascii", 26020>> :> Raise("UnicodeEncodeError"))
 @@ (<<"ascii", 34157>> :> Raise("UnicodeEncodeError"))
 @@ (<<"ascii", 36381>> :> Raise("UnicodeEncodeError"))
 @@ (<<"ascii", 38168>> :> Raise("UnicodeEncodeError"))
 @@ (<<"ascii", 38175>> :> Raise("UnicodeEncodeError"))
 @@ (<<"ascii", 40869>> :> Raise("UnicodeEncodeError"))
 @@ (<<"ascii", 40870>> :> Raise("UnicodeEncodeError"))
 @@ (<<"ascii", 40959>> :> Raise("UnicodeEncodeError"))
 @@ (<<"ascii", 40960>> :> Raise("UnicodeEncodeError"))
 @@ (<<"ascii", 65533>> :> Raise("UnicodeEncodeError"))
 @@ (<<"big5", 10>> :> Return(<<10>>))
 @@ (<<"big5", 63>> :> Return(<<63>>))
 @@ (<<"big5", 19967>> :> Raise("UnicodeEncodeError"))
 @@ (<<"big5", 19968>> :> Return(<<164,64>>))
 @@ (<<"big5", 22169>> :> Return(<<239,191>>))
 @@ (<<"big5", 25335>> :> Return(<<171,254>>))
 @@ (<<"big5", 26020>> :> Return(<<164,231>>))
 @@ (<<"big5", 34157>> :> Return(<<191,189>>))
 @@ (<<"big5", 36381>> :> Return(<<189,239>>))
 @@ (<<"big5", 38168>> :> Raise("UnicodeEncodeError"))
 @@ (<<"big5", 38175>> :> Raise("UnicodeEncodeError"))
 @@ (<<"big5", 40869>> :> Raise("UnicodeEncodeError"))
 @@ (<<"big5", 40870>> :> Raise("UnicodeEncodeError"))
 @@ (<<"big5", 40959>> :> Raise("UnicodeEncodeError"))
 @@ (<<"big5", 40960>> :> Raise("UnicodeEncodeError"))
 @@ (<<"big5", 65533>> :> Raise("UnicodeEncodeError"))
 @@ (<<"cp1252", 10>> :> Return(<<10>>))
 @@ (<<"cp1252", 63>> :> Return(<<63>>))
 @@ (<<"cp1252", 19967>> :> Raise("UnicodeEncodeError"))
 @@ (<<"cp1252", 19968>> :> Raise("UnicodeEncodeError"))
 @@ (<<"cp1252", 22169>> :> Raise("UnicodeEncodeError"))
 @@ (<<"cp1252", 25335>> :> Raise("UnicodeEncodeError"))
 @@ (<<"cp1252", 26020>> :> Raise("UnicodeEncodeError"))
 @@ (<<"cp1252", 34157>> :> Raise("UnicodeEncodeError"))
 @@ (<<"cp1252", 36381>> :> Raise("UnicodeEncodeError"))
 @@ (<<"cp1252", 38168>> :> Raise("UnicodeEncodeError"))
 @@ (<<"cp1252", 38175>> :> Raise("UnicodeEncodeError"))
 @@ (<<"cp1252", 40869>> :> Raise("UnicodeEncodeError"))
 @@ (<<"cp1252", 40870>> :> Raise("UnicodeEncodeError"))
 @@ (<<"cp1252", 40959>> :> Raise("UnicodeEncodeError"))
 @@ (<<"cp1252", 40960>> :> Raise("UnicodeEncodeError"))
 @@ (<<"cp1252", 65533>> :> Raise("UnicodeEncodeError"))
 @@ (<<"gb18030", 10>> :> Return(<<10>>))
 @@ (<<"gb18030", 63>> :> Return(<<63>>))
 @@ (<<"gb18030", 19967>> :> Return(<<130,53,143,50>>))
 @@ (<<"gb18030", 19968>> :> Return(<<210,187>>))
 @@ (<<"gb18030", 22169>> :> Return(<<135,167>>))
 @@ (<<"gb18030", 25335>> :> Return(<<191,189>>))
 @@ (<<"gb18030", 26020>> :> Return(<<189,239>>))
 @@ (<<"gb18030", 34157>> :> Return(<<202,146>>))
 @@ (<<"gb18030", 36381>> :> Return(<<245,215>>))
 @@ (<<"gb18030", 38168>> :> Return(<<239,187>>))
 @@ (<<"gb18030", 38175>> :> Return(<<239,191>>))
 @@ (<<"gb18030", 40869>> :> Return(<<253,155>>))
 @@ (<<"gb18030", 40870>> :> Return(<<130,53,143,51>>))
 @@ (<<"gb18030", 40959>> :> Return(<<130,53,152,50>>))
 @@ (<<"gb18030", 40960>> :> Return(<<130,53,152,51>>))
 @@ (<<"gb18030", 65533>> :> Return(<<132,49,164,55>>))
 @@ (<<"gb2312", 10>> :> Return(<<10>>))
 @@ (<<"gb2312", 63>> :> Return(<<63>>))
 @@ (<<"gb2312", 19967>> :> Raise("UnicodeEncodeError"))
 @@ (<<"gb2312", 19968>> :> Return(<<210,187>>))
 @@ (<<"gb2312", 22169>> :> Raise("UnicodeEncodeError"))
 @@ (<<"gb2312", 25335>> :> Return(<<191,189>>))
 @@ (<<"gb2312", 26020>> :> Return(<<189,239>>))
 @@ (<<"gb2312", 34157>> :> Raise("UnicodeEncodeError"))
 @@ (<<"gb2312", 36381>> :> Return(<<245,215>>))
 @@ (<<"gb2312", 38168>> :> Return(<<239,187>>))
 @@ (<<"gb2312", 38175>> :> Return(<<239,191>>))
 @@ (<<"gb2312", 40869>> :> Raise("UnicodeEncodeError"))
 @@ (<<"gb2312", 40870>> :> Raise("UnicodeEncodeError"))
 @@ (<<"gb2312", 40959>> :> Raise("UnicodeEncodeError"))
 @@ (<<"gb2312", 40960>> :> Raise("UnicodeEncodeError"))
 @@ (<<"gb2312", 65533>> :> Raise("UnicodeEncodeError"))
 @@ (<<"gbk", 10>> :> Return(<<10>>))
 @@ (<<"gbk", 63>> :> Return(<<63>>))
 @@ (<<"gbk", 19967>> :> Raise("UnicodeEncodeError"))
 @@ (<<"gbk", 19968>> :> Return(<<210,187>>))
 @@ (<<"gbk", 22169>> :> Return(<<135,167>>))
 @@ (<<"gbk", 25335>> :> Return(<<191,189>>))
 @@ (<<"gbk", 26020>> :> Return(<<189,239>>))
 @@ (<<"gbk", 34157>> :> Return(<<202,146>>))
 @@ (<<"gbk", 36381>> :> Return(<<245,215>>))
 @@ (<<"gbk", 38168>> :> Return(<<239,187>>))
 @@ (<<"gbk", 38175>> :> Return(<<239,191>>))
 @@ (<<"gbk", 40869>> :> Return(<<253,155>>))
 @@ (<<"gbk", 40870>> :> Raise("UnicodeEncodeError"))
 @@ (<<"gbk", 40959>> :> Raise("UnicodeEncodeError"))
 @@ (<<"gbk", 40960>> :> Raise("UnicodeEncodeError"))
 @@ (<<"gbk", 65533>> :> Raise("UnicodeEncodeError"))
 @@ (<<"utf-8", 10>> :> Return(<<10>>))
 @@ (<<"utf-8", 63>> :> Return(<<63>>))
 @@ (<<"utf-8", 19967>> :> Return(<<228,183,191>>))
 @@ (<<"utf-8", 19968>> :> Return(<<228,184,128>>))
 @@ (<<"utf-8", 22169>> :> Return(<<229,154,153>>))
 @@ (<<"utf-8", 25335>> :> Return(<<230,139,183>>))
 @@ (<<"utf-8", 26020>> :> Return(<<230,150,164>>))
 @@ (<<"utf-8", 34157>> :> Return(<<232,149,173>>))
 @@ (<<"utf-8", 36381>> :> Return(<<232,184,157>>))
 @@ (<<"utf-8", 38168>> :> Return(<<233,148,152>>))
 @@ (<<"utf-8", 38175>> :> Return(<<233,148,159>>))
 @@ (<<"utf-8", 40869>> :> Return(<<233,190,165>>))
 @@ (<<"utf-8", 40870>> :> Return(<<233,190,166>>))
 @@ (<<"utf-8", 40959>> :> Return(<<233,191,191>>))
 @@ (<<"utf-8", 40960>> :> Return(<<234,128,128>>))
 @@ (<<"utf-8", 65533>> :> Return(<<239,191,189>>))

\* bytes.decode(codec, errors='ignore'): undecodable bytes are dropped
ignore_decode_table ==
    (<<"ascii", <<63>>>> :> <<63>>)
 @@ (<<"cp1252", <<63>>>> :> <<63>>)
 @@ (<<"cp1252", <<63,233,191,191>>>> :> <<63,233,191,191>>)
 @@ (<<"cp1252", <<210,187>>>> :> <<210,187>>)
 @@ (<<"cp1252", <<239,191,189,239,191,189>>>> :> <<239,191,189,239,191,189>>)
 @@ (<<"gb2312", <<63>>>> :> <<63>>)
 @@ (<<"gb2312", <<63,233,191,191>>>> :> <<63,27053>>)
 @@ (<<"gb2312", <<210,187>>>> :> <<19968>>)
 @@ (<<"gb2312", <<239,191,189,239,191,189>>>> :> <<38175,26020,25335>>)
 @@ (<<"utf-8", <<63>>>> :> <<63>>)
 @@ (<<"utf-8", <<63,233,191,191>>>> :> <<63,40959>>)
 @@ (<<"utf-8", <<210,187>>>> :> <<1211>>)
 @@ (<<"utf-8", <<239,191,189,239,191,189>>>> :> <<65533,65533>>)

\* text.encode('gbk', errors='ignore'): characters outside GBK are dropped
ignore_encode_gbk_table ==
    (<<63>> :> <<63>>)
 @@ (<<63,233,191,191>> :> <<63,168,166>>)
 @@ (<<63,27053>> :> <<63,233,191>>)
 @@ (<<63,40959>> :> <<63>>)
 @@ (<<210,187>> :> <<>>)
 @@ (<<239,191,189,239,191,189>> :> <<>>)
 @@ (<<1211>> :> <<>>)
 @@ (<<19968>> :> <<210,187>>)
 @@ (<<38175,26020,25335>> :> <<239,191,189,239,191,189>>)
 @@ (<<65533,65533>> :> <<>>)

\* file contents of the trees: empty, "?", U+951F U+65A4 U+62F7 in UTF-8 and in
\* GBK, U+9FA5 in GBK, U+9FA6 in GB18030, and the byte FF
ENFiles == {<<>>, <<63>>, <<233,148,159,230,150,164,230,139,183>>, <<239,191,189,239,191,189>>, <<253,155>>, <<130,53,143,51>>, <<255>>}
\* empty, "?", U+951F U+65A4 U+62F7 in GBK, "?" U+9FFF in UTF-8, U+4E00 in GBK;
\* convert_to_gbk maps this set into itself
CNFiles == {<<>>, <<63>>, <<239,191,189,239,191,189>>, <<63,233,191,191>>, <<210,187>>}

\* bytes.decode(encoding), errors='strict'
decode(bytes, encoding) ==
    IF codec_lookup(encoding) = "LookupError" THEN Raise("LookupError")
    ELSE strict_decode_table[<<codec_lookup(encoding), bytes>>]

\* char.encode(encoding, errors='strict')
encode(char, encoding) ==
    IF codec_lookup(encoding) = "LookupError" THEN Raise("LookupError")
    ELSE strict_encode_table[<<codec_lookup(encoding), char>>]

UnicodeError == {"UnicodeDecodeError", "UnicodeEncodeError"}

\* ------------------------------------------------------ ChineseTextClassifier
is_chinese_character_lowexcl(char) == 19968 < char /\ char <= 40959

is_chinese_character(char) == 19968 <= char /\ char <= 40959

RECURSIVE has_chinese_from(_, _)
has_chinese_from(text, k) ==
    IF k > Len(text) THEN FALSE
    ELSE IF is_chinese_character(text[k]) THEN TRUE
    ELSE has_chinese_from(text, k + 1)

has_chinese_text(text) == has_chinese_from(text, 1)

\* ------------------------------------------------------- GarbledTextAnalyzer
garbled_patterns ==
    << <<38175, 26020, 25335>>, <<38168>>, <<28907, 28907, 28907>>, <<23663, 23663, 23663>>,
       <<65533, 65533>>, <<65533>>, <<63>> >>

\* the try/except around the strict encode and decode of one Chinese character
round_trip_swapped(line_num, i, char, encoding) ==
    LET encoded == encode(char, encoding)
        decoded == decode(encoded.value, encoding)
    IN  IF encoded.exc \in UnicodeError THEN << <<line_num, i, char, "ENCODING_MISMATCH">> >>
        ELSE IF decoded.exc \in UnicodeError THEN << <<line_num, i, char, "INVALID_ENCODING">> >>
        ELSE IF decoded.value # <<char>> THEN << <<line_num, i, char, "ENCODING_MISMATCH">> >>
        ELSE <<>>

round_trip(line_num, i, char, encoding) ==
    LET encoded == encode(char, encoding)
        decoded == decode(encoded.value, encoding)
    IN  IF encoded.exc \in UnicodeError THEN << <<line_num, i, char, "INVALID_ENCODING">> >>
        ELSE IF decoded.exc \in UnicodeError THEN << <<line_num, i, char, "INVALID_ENCODING">> >>
        ELSE IF decoded.value # <<char>> THEN << <<line_num, i, char, "ENCODING_MISMATCH">> >>
        ELSE <<>>

\* the loop over garbled_patterns at one Chinese character
RECURSIVE pattern_findings(_, _, _, _)
pattern_findings(line_num, line, i, p) ==
    IF p > Len(garbled_patterns) THEN <<>>
    ELSE (IF Contains(garbled_patterns[p], slice(line, i, i + Len(garbled_patterns[p])))
          THEN << <<line_num, i, line[i + 1], "COMMON_PATTERN">> >>
          ELSE <<>>)
         \o pattern_findings(line_num, line, i, p + 1)

chinese_in_context(line, i) ==
    LET context == slice(line, Max(0, i - 2), Min(Len(line), i + 3))
    IN  Cardinality({k \in 1..Len(context) : is_chinese_character(context[k])})

is_isolated_narrow(line, i) ==
    Cardinality({k \in 1..Len(slice(line, Max(0, i - 1), Min(Len(line), i + 2))) :
        is_chinese_character(slice(line, Max(0, i - 1), Min(Len(line), i + 2))[k])}) < 2

is_isolated(line, i) == chinese_in_context(line, i) < 2

\* the body of `for i, char in enumerate(line)`
char_findings(line_num, line, i, encoding) ==
    LET char == line[i + 1]
    IN  IF is_chinese_character(char)
        THEN round_trip(line_num, i, char, encoding)
             \o pattern_findings(line_num, line, i, 1)
             \o (IF is_isolated(line, i) THEN << <<line_num, i, char, "ISOLATED_CHARACTER">> >> ELSE <<>>)
        ELSE <<>>

RECURSIVE line_findings(_, _, _, _)
line_findings(line_num, line, i, encoding) ==
    IF i >= Len(line) THEN <<>>
    ELSE char_findings(line_num, line, i, encoding) \o line_findings(line_num, line, i + 1, encoding)

chinese_count(line) == Cardinality({k \in 1..Len(line) : is_chinese_character(line[k])})

RECURSIVE lines_findings(_, _, _)
lines_findings(lines, line_num, encoding) ==
    IF line_num > Len(lines) THEN <<>>
    ELSE line_findings(line_num, lines[line_num], 0, encoding)
         \o lines_findings(lines, line_num + 1, encoding)

\* raises LookupError at the first Chinese character when the label names no codec
find_chinese_garbled_chars(text, encoding) ==
    LET lines == split(text)
    IN  IF has_chinese_text(text) /\ codec_lookup(encoding) = "LookupError"
        THEN [exc |-> "LookupError", garbled_chars |-> <<>>, chinese_chars_in_line |-> <<>>]
        ELSE [exc |-> "",
              garbled_chars |-> lines_findings(lines, 1, encoding),
              chinese_chars_in_line |-> [n \in 1..Len(lines) |-> <<n, chinese_count(lines[n])>>]]

\* ------------------------------------------------------------ file access
\* open(file_path, ...): the read modes need "r" or "rw", the write mode "rw"
can_read(p) == p # "none"
can_write(p) == p = "rw"

IsAscii(bytes) == \A k \in 1..Len(bytes) : bytes[k] < 128

\* chardet.detect(raw_data)['encoding']: the labels the detector can report
\* for a byte string. Nothing for no input, ascii for 7-bit input, and for
\* anything else whichever prober wins (or none with enough confidence).
chardet_detect(bytes) ==
    IF bytes = <<>> THEN {None}
    ELSE IF IsAscii(bytes) THEN {L_ascii}
    ELSE {L_utf8, L_GB2312, L_Windows1252, L_EUCTW, None}

\* detect_encoding(file_path); det is what chardet reports for the bytes read
detect_encoding(p, det) ==
    IF ~can_read(p) THEN Raise("PermissionError") ELSE Return(det)

\* codecs.open(file_path, 'r', encoding=encoding, errors='ignore').read()
ignore_decode(bytes, encoding) ==
    IF codec_lookup(encoding) = "LookupError" THEN Raise("LookupError")
    ELSE Return(ignore_decode_table[<<codec_lookup(encoding), bytes>>])

\* what f.write(content) leaves in a file opened with encoding='gbk', errors='ignore'
ignore_encode_gbk(content) == ignore_encode_gbk_table[content]

\* ------------------------------------------------------- EncodingConverter
\* the second half of convert_to_gbk: open for writing, write, return True
gbk_write_unchecked(bytes, p, content) ==
    IF ~can_write(p)
    THEN [ret |-> TRUE, bytes |-> bytes, opened_w |-> FALSE, wrote |-> FALSE, caught |-> "PermissionError"]
    ELSE [ret |-> TRUE, bytes |-> ignore_encode_gbk(content), opened_w |-> TRUE, wrote |-> TRUE, caught |-> ""]

gbk_write(bytes, p, content) ==
    IF ~can_write(p)
    THEN [ret |-> FALSE, bytes |-> bytes, opened_w |-> FALSE, wrote |-> FALSE, caught |-> "PermissionError"]
    ELSE [ret |-> TRUE, bytes |-> ignore_encode_gbk(content), opened_w |-> TRUE, wrote |-> TRUE, caught |-> ""]

\* convert_to_gbk(file_path) on a file holding bytes, with access p
convert_to_gbk(bytes, p, det) ==
    LET encoding == detect_encoding(p, det)
        failed(e) == [ret |-> FALSE, bytes |-> bytes, opened_w |-> FALSE, wrote |-> FALSE, caught |-> e]
    IN  IF encoding.exc # "" THEN failed(encoding.exc) @@ [read |-> FALSE]
        ELSE IF encoding.value = None THEN failed("") @@ [read |-> FALSE]
        ELSE LET content == ignore_decode(bytes, encoding.value)
             IN  IF content.exc # "" THEN failed(content.exc) @@ [read |-> FALSE]
                 ELSE gbk_write(bytes, p, content.value) @@ [read |-> TRUE]

\* the signatures of check_gbk_file_for_garbled_text; the third is the empty string
check_patterns == << <<38175, 26020, 25335>>, <<38168>>, <<>>, <<38168>> >>

\* check_gbk_file_for_garbled_text(file_path): found_garbled, or False on any exception
check_gbk_file_for_garbled_text(bytes, p) ==
    LET content == decode(bytes, L_gbk)
        lines == split(content.value)
    IN  IF ~can_read(p) THEN FALSE
        ELSE IF content.exc # "" THEN FALSE
        ELSE \E i \in 1..Len(lines) : \E pattern \in 1..Len(check_patterns) :
                Contains(check_patterns[pattern], lines[i])

\* ------------------------------------------- gbkDetect_CN.process_cpp_files
is_gbk_family_gb_only(detected_encoding) == startswith(detected_encoding, <<"g","b">>)

\* the test that routes a file to the check instead of the conversion
is_gbk_family(detected_encoding) ==
    \/ startswith(detected_encoding, <<"g","b">>)
    \/ startswith(detected_encoding, <<"w","i","n","d","o","w","s">>)

NoCall == [ret |-> FALSE, opened_w |-> FALSE, wrote |-> FALSE, caught |-> "", read |-> FALSE]

\* one iteration of the for loop of gbkDetect_CN.process_cpp_files
cn_iteration(f, bytes, p, det) ==
    LET detected == detect_encoding(p, det)
        base == [file |-> f, label |-> det, before |-> bytes, after |-> bytes, exc |-> "",
                 checked |-> FALSE, converted |-> FALSE] @@ NoCall
    IN  IF detected.exc # "" THEN [base EXCEPT !.exc = detected.exc, !.label = None]
        ELSE IF detected.value = None THEN base
        ELSE IF is_gbk_family(lower(detected.value))
             THEN [base EXCEPT !.checked = TRUE, !.ret = check_gbk_file_for_garbled_text(bytes, p)]
             ELSE LET c == convert_to_gbk(bytes, p, det)
                  IN  [base EXCEPT !.converted = TRUE, !.ret = c.ret, !.after = c.bytes,
                                   !.opened_w = c.opened_w, !.wrote = c.wrote,
                                   !.caught = c.caught, !.read = c.read]

\* ---------------------------------------------- gbkDetect.process_cpp_files
fallback_encodings == <<L_utf8, L_gbk, L_gb18030, L_big5>>

\* the for/else over the fallback encodings
RECURSIVE fallback_from(_, _)
fallback_from(raw_content, k) ==
    IF k > Len(fallback_encodings)
    THEN [found |-> FALSE, tried |-> <<>>, encoding |-> None, content |-> <<>>]
    ELSE IF decode(raw_content, fallback_encodings[k]).exc = ""
         THEN [found |-> TRUE, tried |-> <<fallback_encodings[k]>>,
               encoding |-> fallback_encodings[k],
               content |-> decode(raw_content, fallback_encodings[k]).value]
         ELSE [fallback_from(raw_content, k + 1) EXCEPT !.tried = <<fallback_encodings[k]>> \o @]

RECURSIVE sum_counts(_, _)
sum_counts(stats, k) == IF k > Len(stats) THEN 0 ELSE stats[k][2] + sum_counts(stats, k + 1)

\* one iteration of the for loop of gbkDetect.process_cpp_files
en_iteration(f, bytes, p, det) ==
    LET detected == detect_encoding(p, det)
        base == [file |-> f, label |-> det, exc |-> "", outcome |-> "no_encoding",
                 first_exc |-> "", tried |-> <<>>, encoding |-> None,
                 garbled_chars |-> <<>>, total_chinese |-> 0]
        analysed(content, enc, tried) ==
            LET r == find_chinese_garbled_chars(content, enc)
            IN  IF r.exc # "" THEN [base EXCEPT !.outcome = "error", !.tried = tried, !.encoding = enc]
                ELSE [base EXCEPT !.outcome = "analyzed", !.tried = tried, !.encoding = enc,
                                  !.garbled_chars = r.garbled_chars,
                                  !.total_chinese = sum_counts(r.chinese_chars_in_line, 1)]
    IN  IF detected.exc # "" THEN [base EXCEPT !.exc = detected.exc, !.outcome = "raised", !.label = None]
        ELSE IF detected.value = None THEN base
        ELSE LET detected_encoding == lower(detected.value)
                 content == decode(bytes, detected_encoding)
                 fb == fallback_from(bytes, 1)
             IN  IF content.exc = "" THEN analysed(content.value, detected_encoding, <<>>)
                 ELSE IF content.exc = "UnicodeDecodeError"
                      THEN IF fb.found
                           THEN [analysed(fb.content, fb.encoding, fb.tried) EXCEPT !.first_exc = content.exc]
                           ELSE [base EXCEPT !.outcome = "undecodable", !.first_exc = content.exc,
                                             !.tried = fb.tried]
                      ELSE [base EXCEPT !.outcome = "error", !.first_exc = content.exc]

\* ---------------------------------------------------------------- state
VARIABLES
    text,         \* the text handed to the text functions
    encoding,     \* the encoding label handed to find_chinese_garbled_chars
    tpc,          \* "input", "analyzed", "classified"; "idle" outside the text specification
    garbled,      \* result of find_chinese_garbled_chars
    has_chinese,  \* result of has_chinese_text
    disk,         \* disk[f]: the bytes of the f-th file of cpp_files
    perm,         \* perm[f]: "rw", "r" (read-only) or "none" (open raises)
    idx,          \* position of the for loop in cpp_files
    pc,           \* where the program is
    runs,         \* how many times the batch was started
    log           \* what each call / loop iteration did, in order

vars == <<text, encoding, tpc, garbled, has_chinese, disk, perm, idx, pc, runs, log>>

textVars == <<text, encoding, tpc, garbled, has_chinese>>
fileVars == <<disk, perm, idx, pc, runs, log>>

\* ------------------------------------------------ the text functions, applied
\* newline, '?', the code points around both ends of the CJK block, U+9518
\* (a one-character signature, in GBK) and U+FFFD
Alphabet == {NL, 63, 19967, 19968, 38168, 40959, 40960, 65533}

Texts == UNION {[1..n -> Alphabet] : n \in 0..MaxLen}

\* labels the driver can hand to the analyzer: a lower-cased detected label
\* or a fallback encoding, each of which decoded the content
TextEncodings == {L_ascii, L_utf8, L_gbk, L_big5}

NoResult == [exc |-> "", garbled_chars |-> <<>>, chinese_chars_in_line |-> <<>>]

TextIdle ==
    /\ text = <<>> /\ encoding = None /\ tpc = "idle"
    /\ garbled = NoResult /\ has_chinese = FALSE

FilesIdle ==
    /\ disk = <<>> /\ perm = <<>> /\ idx = 0 /\ pc = "idle" /\ runs = 0 /\ log = <<>>

TextInit ==
    /\ text \in Texts
    /\ encoding \in TextEncodings
    /\ tpc = "input"
    /\ garbled = NoResult
    /\ has_chinese = FALSE
    /\ FilesIdle

Analyze ==
    /\ tpc = "input"
    /\ garbled' = find_chinese_garbled_chars(text, encoding)
    /\ tpc' = "analyzed"
    /\ UNCHANGED <<text, encoding, has_chinese>>
    /\ UNCHANGED fileVars

Classify ==
    /\ tpc = "input"
    /\ has_chinese' = has_chinese_text(text)
    /\ tpc' = "classified"
    /\ UNCHANGED <<text, encoding, garbled>>
    /\ UNCHANGED fileVars

TextNext == Analyze \/ Classify

SpecText == TextInit /\ [][TextNext]_vars

\* ------------------------------------------------------------------ specs
Perms == {"rw", "r", "none"}
Files == 1..NumFiles

\* gbkDetect_CN.py run over a tree of NumFiles files, possibly several times
CNInit ==
    /\ disk \in [Files -> CNFiles]
    /\ perm \in [Files -> Perms]
    /\ idx = 1
    /\ pc = "cn_loop"
    /\ runs = 1
    /\ log = <<>>
    /\ TextIdle

\* log keeps the latest iteration over each file
CNProcessFile ==
    /\ pc = "cn_loop"
    /\ \E det \in chardet_detect(disk[idx]) :
          LET e == cn_iteration(idx, disk[idx], perm[idx], det)
          IN  /\ disk' = [disk EXCEPT ![idx] = e.after]
              /\ log' = Append(SelectSeq(log, LAMBDA old : old.file # idx), e)
              /\ idx' = IF e.exc # "" THEN idx ELSE idx + 1
              /\ pc' = IF e.exc # "" THEN "cn_aborted"
                       ELSE IF idx = NumFiles THEN "cn_done" ELSE "cn_loop"
    /\ UNCHANGED <<perm, runs>>
    /\ UNCHANGED textVars

\* the user starts the script again on the same tree
CNRerun ==
    /\ pc \in {"cn_done", "cn_aborted"}
    /\ runs < MaxRuns
    /\ runs' = runs + 1
    /\ idx' = 1
    /\ pc' = "cn_loop"
    /\ UNCHANGED <<disk, perm, log>>
    /\ UNCHANGED textVars

CNNext == CNProcessFile \/ CNRerun

SpecCN == CNInit /\ [][CNNext]_vars

\* convert_to_gbk called on each file of a tree, once per file
ConvertInit ==
    /\ disk \in [Files -> CNFiles]
    /\ perm \in [Files -> Perms]
    /\ idx = 0
    /\ pc = "convert"
    /\ runs = 0
    /\ log = <<>>
    /\ TextIdle

ConvertCall ==
    /\ pc = "convert"
    /\ \E f \in Files : \E det \in chardet_detect(disk[f]) :
          /\ \A k \in 1..Len(log) : log[k].file # f
          /\ LET c == convert_to_gbk(disk[f], perm[f], det)
             IN  /\ disk' = [disk EXCEPT ![f] = c.bytes]
                 /\ log' = Append(log, c @@ [file |-> f, label |-> det, before |-> disk[f],
                                             readable |-> can_read(perm[f])])
    /\ UNCHANGED <<perm, idx, pc, runs>>
    /\ UNCHANGED textVars

ConvertNext == ConvertCall

SpecConvert == ConvertInit /\ [][ConvertNext]_vars

\* gbkDetect.py run over a tree of NumFiles files
ENInit ==
    /\ disk \in [Files -> ENFiles]
    /\ perm \in [Files -> {"r", "none"}]
    /\ idx = 1
    /\ pc = "en_loop"
    /\ runs = 1
    /\ log = <<>>
    /\ TextIdle

ENProcessFile ==
    /\ pc = "en_loop"
    /\ \E det \in chardet_detect(disk[idx]) :
          LET e == en_iteration(idx, disk[idx], perm[idx], det)
          IN  /\ log' = Append(log, e)
              /\ idx' = IF e.exc # "" THEN idx ELSE idx + 1
              /\ pc' = IF e.exc # "" THEN "en_aborted"
                       ELSE IF idx = NumFiles THEN "en_done" ELSE "en_loop"
    /\ UNCHANGED <<disk, perm, runs>>
    /\ UNCHANGED textVars

ENNext == ENProcessFile

SpecEN == ENInit /\ [][ENNext]_vars

\* every program of the repository
Init == TextInit \/ CNInit \/ ConvertInit \/ ENInit
Next == TextNext \/ CNNext \/ ConvertNext \/ ENNext
Spec == Init /\ [][Next]_vars

\* -------------------------------------------------- properties of the drivers
GbOrWindows(label) ==
    LET l == lower(label)
    IN  \/ (Len(l) >= 2 /\ l[1] = "g" /\ l[2] = "b")
        \/ (Len(l) >= 7 /\ SubSeq(l, 1, 7) = <<"w","i","n","d","o","w","s">>)

\* C1: for every processed file with a non-null label: a label that starts,
\* lower-cased, with "gb" or "windows" means no convert_to_gbk, the garbled-text
\* check, and unchanged bytes; any other label means convert_to_gbk and no
\* check. No iteration does both.
C1_ConvertXorCheck ==
    pc \in {"cn_loop", "cn_done", "cn_aborted"} =>
        \A k \in 1..Len(log) :
            /\ ~(log[k].converted /\ log[k].checked)
            /\ (log[k].exc = "" /\ log[k].label # None) =>
                 IF GbOrWindows(log[k].label)
                 THEN ~log[k].converted /\ log[k].checked /\ log[k].after = log[k].before
                 ELSE log[k].converted /\ ~log[k].checked

\* one file was checked under a windows label and left alone, another was
\* converted and rewritten
C1_Witness ==
    /\ pc = "cn_done"
    /\ \E k \in 1..Len(log) : log[k].label = L_Windows1252 /\ log[k].checked
    /\ \E k \in 1..Len(log) : log[k].converted /\ log[k].ret /\ log[k].after # log[k].before

\* C6: once convert_to_gbk has succeeded on a file, a later iteration over that
\* file neither invokes convert_to_gbk nor opens the file for writing.
C6_ConvertIdempotent ==
    [][\A k \in 1..Len(log) :
          (pc = "cn_loop" /\ log[k].file = idx /\ log[k].converted /\ log[k].ret)
              => \A j \in 1..Len(log') :
                    log'[j].file = idx => (~log'[j].converted /\ ~log'[j].opened_w)]_vars

HasSignature(content) ==
    \E i \in 1..Len(split(content)) :
        \/ Contains(<<38175, 26020, 25335>>, split(content)[i])
        \/ Contains(<<38168>>, split(content)[i])

\* C10: for a file that decodes under GBK the check returns True exactly when
\* some line contains one of the two signatures; a readable file with neither
\* (the empty file included) gives False.
C10_CheckIffSignature ==
    pc \in {"cn_loop", "cn_done", "cn_aborted"} =>
        \A k \in 1..Len(log) :
            (log[k].checked /\ decode(log[k].before, L_gbk).exc = "")
                => (log[k].ret = HasSignature(decode(log[k].before, L_gbk).value))

\* C8: convert_to_gbk returns True only after a non-null detection, a completed
\* read and a completed GBK write; a null detection gives False with the file
\* never opened for writing; an exception in detection, read or write gives
\* False, and the file keeps its bytes unless the write completed.
C8_NoFalseSuccess ==
    pc = "convert" =>
        \A k \in 1..Len(log) :
            /\ log[k].ret => (/\ log[k].label # None
                              /\ log[k].readable
                              /\ log[k].read
                              /\ log[k].opened_w /\ log[k].wrote
                              /\ log[k].caught = ""
                              /\ perm[log[k].file] = "rw")
            /\ log[k].label = None => (~log[k].ret /\ ~log[k].opened_w)
            /\ log[k].caught # "" => ~log[k].ret
            /\ (~log[k].readable \/ perm[log[k].file] # "rw" \/ lower(log[k].label) = lower(L_EUCTW))
                  => ~log[k].ret
            /\ ~log[k].wrote => disk[log[k].file] = log[k].before

\* one call succeeded and rewrote its file, another failed on a read-only file
\* after reading it
C8_Witness ==
    /\ pc = "convert"
    /\ \E k \in 1..Len(log) : log[k].ret /\ log[k].wrote /\ disk[log[k].file] # log[k].before
    /\ \E k \in 1..Len(log) : ~log[k].ret /\ log[k].read /\ log[k].caught = "PermissionError"

\* C2: a file whose bytes cannot be read during detection is skipped as
\* undetected, and the batch goes on to the end.
C2_IOFailureContained ==
    pc \in {"en_loop", "en_done", "en_aborted"} =>
        /\ pc # "en_aborted"
        /\ \A k \in 1..Len(log) :
              perm[log[k].file] = "none" => (log[k].exc = "" /\ log[k].outcome = "no_encoding")

\* the fallback encodings up to and including the first that decodes the bytes
\* strictly, all four when none does
ExpectedTried(bytes) ==
    LET ok == {n \in 1..Len(fallback_encodings) : decode(bytes, fallback_encodings[n]).exc = ""}
    IN  IF ok = {} THEN fallback_encodings
        ELSE SubSeq(fallback_encodings, 1, CHOOSE n \in ok : \A m \in ok : n <= m)

\* C7: whenever decoding under the detected label fails, utf-8, gbk, gb18030,
\* big5 are tried in that order up to the first that decodes, which becomes the
\* label handed to the analyzer; when all four fail the file is skipped without
\* analysis and the batch continues.
C7_OrderedFallback ==
    pc \in {"en_loop", "en_done", "en_aborted"} =>
        \A k \in 1..Len(log) :
            (/\ log[k].exc = ""
             /\ log[k].label # None
             /\ decode(disk[log[k].file], lower(log[k].label)).exc # "")
            => LET want == ExpectedTried(disk[log[k].file])
               IN  /\ log[k].tried = want
                   /\ IF decode(disk[log[k].file], want[Len(want)]).exc = ""
                      THEN log[k].outcome = "analyzed" /\ log[k].encoding = want[Len(want)]
                      ELSE /\ log[k].outcome = "undecodable"
                           /\ log[k].garbled_chars = <<>>
                           /\ log[k].encoding = None

\* ------------------------------------------------------------ properties
InCJK(c) == c \in 19968..40959

TextLines == split(text)

\* (line, column) of every Chinese character of the text
ChinesePositions ==
    {pos \in UNION {{<<l, i>> : i \in 0..(Len(TextLines[l]) - 1)} : l \in 1..Len(TextLines)} :
        InCJK(TextLines[pos[1]][pos[2] + 1])}

CharAt(pos) == TextLines[pos[1]][pos[2] + 1]

Findings == garbled.garbled_chars

Tagged(reasons) == {<<Findings[k][1], Findings[k][2]>> : k \in {j \in 1..Len(Findings) : Findings[j][4] \in reasons}}

TagCount(pos, reasons) ==
    Cardinality({k \in 1..Len(Findings) :
        Findings[k][1] = pos[1] /\ Findings[k][2] = pos[2] /\ Findings[k][4] \in reasons})

\* C3: every configured signature that occurs in a line yields a COMMON_PATTERN
\* finding for that line at the column of the signature's first occurrence.
C3_PatternCompleteness ==
    tpc = "analyzed" =>
        \A l \in 1..Len(TextLines) : \A p \in 1..Len(garbled_patterns) :
            Contains(garbled_patterns[p], TextLines[l]) =>
                \E k \in 1..Len(Findings) :
                    /\ Findings[k][1] = l
                    /\ Findings[k][2] = FirstIndex(garbled_patterns[p], TextLines[l])
                    /\ Findings[k][4] = "COMMON_PATTERN"

\* C4: the positions tagged INVALID_ENCODING are exactly the Chinese characters
\* whose strict encode raises, the positions tagged ENCODING_MISMATCH exactly
\* those whose encode succeeds and decodes to something else; each such
\* position carries exactly one of the two tags, and a character that
\* round-trips carries neither.
C4_RoundTripExact ==
    tpc = "analyzed" =>
        /\ Tagged({"INVALID_ENCODING"}) =
              {pos \in ChinesePositions : encode(CharAt(pos), encoding).exc # ""}
        /\ Tagged({"ENCODING_MISMATCH"}) =
              {pos \in ChinesePositions :
                  /\ encode(CharAt(pos), encoding).exc = ""
                  /\ decode(encode(CharAt(pos), encoding).value, encoding) # Return(<<CharAt(pos)>>)}
        /\ \A pos \in Tagged({"INVALID_ENCODING", "ENCODING_MISMATCH"}) :
              TagCount(pos, {"INVALID_ENCODING", "ENCODING_MISMATCH"}) = 1

\* a text with one Chinese character the encoding cannot represent (flagged)
\* and one that round-trips (not flagged)
C4_Witness ==
    /\ tpc = "analyzed"
    /\ Tagged({"INVALID_ENCODING"}) # {}
    /\ ChinesePositions \ Tagged({"INVALID_ENCODING", "ENCODING_MISMATCH"}) # {}

\* C5: a Chinese character at column i gets exactly one ISOLATED_CHARACTER
\* finding when fewer than 2 of the characters of its line at columns
\* max(0,i-2)..min(len-1,i+2) are Chinese, and none otherwise; a Chinese
\* character with a Chinese neighbour in its line gets none, and neither does
\* any character of a line made of 4 Chinese characters.
C5_IsolationWindow ==
    tpc = "analyzed" =>
        /\ \A pos \in ChinesePositions :
              LET line == TextLines[pos[1]]
                  i == pos[2]
                  window == {j \in 0..(Len(line) - 1) : j >= i - 2 /\ j <= i + 2}
                  n == Cardinality({j \in window : InCJK(line[j + 1])})
              IN  TagCount(pos, {"ISOLATED_CHARACTER"}) = (IF n < 2 THEN 1 ELSE 0)
        /\ Tagged({"ISOLATED_CHARACTER"}) \subseteq ChinesePositions
        /\ \A pos \in ChinesePositions :
              LET line == TextLines[pos[1]]
                  i == pos[2]
              IN  (\/ (i >= 1 /\ InCJK(line[i]))
                   \/ (i + 2 <= Len(line) /\ InCJK(line[i + 2])))
                  => pos \notin Tagged({"ISOLATED_CHARACTER"})
        /\ (Len(text) = 4 /\ \A k \in 1..4 : InCJK(text[k]))
              => Tagged({"ISOLATED_CHARACTER"}) = {}

\* a lone Chinese character on one line is flagged while two adjacent ones on
\* another line are not
C5_Witness ==
    /\ tpc = "analyzed"
    /\ Tagged({"ISOLATED_CHARACTER"}) # {}
    /\ \E pos \in ChinesePositions \ Tagged({"ISOLATED_CHARACTER"}) :
          /\ pos[2] = 0
          /\ Len(TextLines[pos[1]]) >= 2
          /\ InCJK(TextLines[pos[1]][2])

\* C9: has_chinese_text(s) is true exactly when s has a code point in
\* 0x4E00..0x9FFF (is_chinese_character holds exactly on that range), it
\* distributes over concatenation, and it is false on the empty string.
C9_HasChineseText ==
    tpc = "classified" =>
        /\ has_chinese = (\E k \in 1..Len(text) : text[k] >= 19968 /\ text[k] <= 40959)
        /\ \A k \in 1..Len(text) : is_chinese_character(text[k]) = InCJK(text[k])
        /\ \A n \in 0..Len(text) :
              has_chinese = (\/ has_chinese_text(SubSeq(text, 1, n))
                             \/ has_chinese_text(SubSeq(text, n + 1, Len(text))))
        /\ (text = <<>> => ~has_chinese)

\* a text classified as Chinese whose only Chinese character is U+4E00, the
\* lower end of the range, after U+A000, the first code point past the range
C9_Witness ==
    /\ tpc = "classified"
    /\ has_chinese
    /\ text = <<40960, 19968>>

====
